---- MODULE Spec2Model ----
(***************************************************************************)
(* A model of the `relative` crate (src/src/lib.rs): Code<T>, Data<T> and  *)
(* Vtable<T> wrap a usize offset from a per-segment base address, and are  *)
(* (de)serialised as the tuple (build_id, type_id::<T>(), offset).         *)
(*                                                                         *)
(* The model follows one exchange at a time: a process captures a value    *)
(* with from(), may resolve or compare it, serialises it, a process        *)
(* deserialises the record (any number of times, as any segment kind and   *)
(* type), and resolves the result with to().                               *)
(***************************************************************************)
EXTENDS Integers, Sequences, FiniteSets, TLC

\* usize::MAX of the modelled machine word (two bits wide); usize arithmetic
\* wraps modulo MaxAddr + 1.
MaxAddr == 3
Modulus == MaxAddr + 1
Addr == 0 .. MaxAddr

Procs == {"P1", "P2"}
Builds == {"buildA", "buildB"}
Types == {"T1", "T2"}
Segs == {"Code", "Data", "Vtable"}

\* Where the linker put the three base symbols in each compiled image,
\* relative to the image's load address.
ImageLayout ==
  [b \in Builds |->
     IF b = "buildA" THEN [Code |-> 0, Data |-> 1, Vtable |-> 3]
                     ELSE [Code |-> 2, Data |-> 0, Vtable |-> 1]]

\* intrinsics::type_id::<T>() is a property of the compiled image.
TypeIds ==
  [b \in Builds |->
     IF b = "buildA" THEN [T1 |-> 1, T2 |-> 2]
                     ELSE [T1 |-> 2, T2 |-> 3]]

\* intrinsics::type_name::<T>()
TypeNames == [T1 |-> "[u8; 5]", T2 |-> "()"]

VARIABLES
  build,  \* build[p]: what build_id::get() returns in process p
  load,   \* load[p]: the address process p's image was loaded at
  val,    \* <<>> or <<[p, x, v]>>: the value v that process p made by from(x)
  wire,   \* <<>> or <<[rec, by]>>: the tuple rec that process by serialised
  res,    \* <<>> or <<[p, seg, ty, rec, by, r]>>: the Result r of the last
          \* deserialize, by process p as seg<ty>, of the tuple rec
  ret     \* <<>> or <<r>>: what the last to() or comparison returned; any
          \* other call discards it

vars == <<build, load, val, wire, res, ret>>

----------------------------------------------------------------------------
\* usize arithmetic

\* usize::saturating_sub, in place of wrapping_sub
saturating_sub(a, b) == IF a >= b THEN a - b ELSE 0

wrapping_sub(a, b) == (a - b + Modulus) % Modulus

wrapping_add(a, b) == (a + b) % Modulus

\* usize::cmp
usize_cmp(a, b) == IF a < b THEN "Less" ELSE IF a = b THEN "Equal" ELSE "Greater"

\* usize::partial_cmp
usize_partial_cmp(a, b) == <<usize_cmp(a, b)>>

\* usize::hash into a hasher whose state is st
usize_hash(a, st) == (st * 31 + a + 1) % 257

----------------------------------------------------------------------------
\* The process's environment

build_id_get(p) == build[p]

type_id(p, T) == TypeIds[build[p]][T]

type_name(T) == TypeNames[T]

\* relative_code_base as usize
relative_code_base(p) == (load[p] + ImageLayout[build[p]].Code) % Modulus

\* &RELATIVE_DATA_BASE as *const () as usize
RELATIVE_DATA_BASE(p) == (load[p] + ImageLayout[build[p]].Data) % Modulus

\* transmute::<_, raw::TraitObject>(RELATIVE_VTABLE_BASE).vtable as usize
RELATIVE_VTABLE_BASE(p) == (load[p] + ImageLayout[build[p]].Vtable) % Modulus

\* the wrong-type message with its two numbers in the other order
ErrWrongType_swapped(id, name, expected) ==
  [msg |-> "relative reference to wrong type", got_name |-> "???",
   got_id |-> expected, expected_name |-> name, expected_id |-> id]

\* serde::de::Error::custom of the two messages
ErrWrongType(id, name, expected) ==
  [msg |-> "relative reference to wrong type", got_name |-> "???", got_id |-> id,
   expected_name |-> name, expected_id |-> expected]

ErrDifferentBinary(b, local) ==
  [msg |-> "relative reference came from a different binary", got |-> b,
   expected |-> local]

Ok(v) == [ok |-> TRUE, value |-> v]

Err(e) == [ok |-> FALSE, err |-> e]

----------------------------------------------------------------------------
\* Code<T>

Code_new(T, p) == [seg |-> "Code", ty |-> T, off |-> p]

Code_from(proc, T, ptr) ==
  LET base == relative_code_base(proc)
  IN Code_new(T, wrapping_sub(ptr, base))

Code_to(proc, self) ==
  LET base == relative_code_base(proc)
  IN wrapping_add(base, self.off)

Code_eq(self, other) == self.off = other.off

Code_hash(self, st) == usize_hash(self.off, st)

Code_partial_cmp(self, other) == usize_partial_cmp(self.off, other.off)

Code_cmp(self, other) == usize_cmp(self.off, other.off)

\* serialize writing a type id of Code<T>, not of T
Code_serialize_of_self(proc, self) ==
  <<build_id_get(proc), type_id(proc, self.ty) + 100, self.off>>

Code_serialize(proc, self) ==
  <<build_id_get(proc), type_id(proc, self.ty), self.off>>

\* deserialize taking the record's usize for an address, and rebasing it
Code_deserialize_rebased(proc, T, record) ==
  LET b == record[1]
      id == record[2]
      ptr == record[3]
      local == build_id_get(proc)
  IN IF b = local
       THEN IF id = type_id(proc, T)
              THEN Ok(Code_from(proc, T, ptr))
              ELSE Err(ErrWrongType(id, type_name(T), type_id(proc, T)))
       ELSE Err(ErrDifferentBinary(b, local))

Code_deserialize(proc, T, record) ==
  LET b == record[1]
      id == record[2]
      ptr == record[3]
      local == build_id_get(proc)
  IN IF b = local
       THEN IF id = type_id(proc, T)
              THEN Ok(Code_new(T, ptr))
              ELSE Err(ErrWrongType(id, type_name(T), type_id(proc, T)))
       ELSE Err(ErrDifferentBinary(b, local))

----------------------------------------------------------------------------
\* Data<T>

Data_new(T, p) == [seg |-> "Data", ty |-> T, off |-> p]

\* from() keeping the address, no base subtracted
Data_from_absolute(proc, T, ptr) == Data_new(T, ptr)

Data_from(proc, T, ptr) ==
  LET base == RELATIVE_DATA_BASE(proc)
  IN Data_new(T, wrapping_sub(ptr, base))

Data_to(proc, self) ==
  LET base == RELATIVE_DATA_BASE(proc)
  IN wrapping_add(base, self.off)

Data_eq(self, other) == self.off = other.off

Data_hash(self, st) == usize_hash(self.off, st)

Data_partial_cmp(self, other) == usize_partial_cmp(self.off, other.off)

Data_cmp(self, other) == usize_cmp(self.off, other.off)

\* serialize writing the resolved address in place of the offset
Data_serialize_address(proc, self) ==
  <<build_id_get(proc), type_id(proc, self.ty), Data_to(proc, self)>>

Data_serialize(proc, self) ==
  <<build_id_get(proc), type_id(proc, self.ty), self.off>>

\* deserialize without the type_id check
Data_deserialize_untyped(proc, T, record) ==
  LET b == record[1]
      ptr == record[3]
      local == build_id_get(proc)
  IN IF b = local
       THEN Ok(Data_new(T, ptr))
       ELSE Err(ErrDifferentBinary(b, local))

Data_deserialize(proc, T, record) ==
  LET b == record[1]
      id == record[2]
      ptr == record[3]
      local == build_id_get(proc)
  IN IF b = local
       THEN IF id = type_id(proc, T)
              THEN Ok(Data_new(T, ptr))
              ELSE Err(ErrWrongType(id, type_name(T), type_id(proc, T)))
       ELSE Err(ErrDifferentBinary(b, local))

----------------------------------------------------------------------------
\* Vtable<T>

Vtable_new(T, p) == [seg |-> "Vtable", ty |-> T, off |-> p]

Vtable_from(proc, T, ptr) ==
  LET base == RELATIVE_VTABLE_BASE(proc)
  IN Vtable_new(T, wrapping_sub(ptr, base))

Vtable_to(proc, self) ==
  LET base == RELATIVE_VTABLE_BASE(proc)
  IN wrapping_add(base, self.off)

Vtable_eq(self, other) == self.off = other.off

Vtable_hash(self, st) == usize_hash(self.off, st)

Vtable_partial_cmp(self, other) == usize_partial_cmp(self.off, other.off)

\* the offsets compared as isize
Vtable_cmp_signed(self, other) ==
  LET signed(o) == IF 2 * o >= Modulus THEN o - Modulus ELSE o
  IN IF signed(self.off) < signed(other.off) THEN "Less"
     ELSE IF self.off = other.off THEN "Equal" ELSE "Greater"

Vtable_cmp(self, other) == usize_cmp(self.off, other.off)

Vtable_serialize(proc, self) ==
  <<build_id_get(proc), type_id(proc, self.ty), self.off>>

\* deserialize adding the local base to the record's offset
Vtable_deserialize_resolved(proc, T, record) ==
  LET b == record[1]
      id == record[2]
      ptr == record[3]
      local == build_id_get(proc)
  IN IF b = local
       THEN IF id = type_id(proc, T)
              THEN Ok(Vtable_new(T, wrapping_add(RELATIVE_VTABLE_BASE(proc), ptr)))
              ELSE Err(ErrWrongType(id, type_name(T), type_id(proc, T)))
       ELSE Err(ErrDifferentBinary(b, local))

\* deserialize checking the type_id before the build_id
Vtable_deserialize_type_first(proc, T, record) ==
  LET b == record[1]
      id == record[2]
      ptr == record[3]
      local == build_id_get(proc)
  IN IF id = type_id(proc, T)
       THEN IF b = local
              THEN Ok(Vtable_new(T, ptr))
              ELSE Err(ErrDifferentBinary(b, local))
       ELSE Err(ErrWrongType(id, type_name(T), type_id(proc, T)))

Vtable_deserialize(proc, T, record) ==
  LET b == record[1]
      id == record[2]
      ptr == record[3]
      local == build_id_get(proc)
  IN IF b = local
       THEN IF id = type_id(proc, T)
              THEN Ok(Vtable_new(T, ptr))
              ELSE Err(ErrWrongType(id, type_name(T), type_id(proc, T)))
       ELSE Err(ErrDifferentBinary(b, local))

----------------------------------------------------------------------------
\* The call made on a value is chosen by its static type, here its seg tag.

from(proc, seg, T, ptr) ==
  CASE seg = "Code" -> Code_from(proc, T, ptr)
    [] seg = "Data" -> Data_from(proc, T, ptr)
    [] seg = "Vtable" -> Vtable_from(proc, T, ptr)

to(proc, self) ==
  CASE self.seg = "Code" -> Code_to(proc, self)
    [] self.seg = "Data" -> Data_to(proc, self)
    [] self.seg = "Vtable" -> Vtable_to(proc, self)

serialize(proc, self) ==
  CASE self.seg = "Code" -> Code_serialize(proc, self)
    [] self.seg = "Data" -> Data_serialize(proc, self)
    [] self.seg = "Vtable" -> Vtable_serialize(proc, self)

deserialize(proc, seg, T, record) ==
  CASE seg = "Code" -> Code_deserialize(proc, T, record)
    [] seg = "Data" -> Data_deserialize(proc, T, record)
    [] seg = "Vtable" -> Vtable_deserialize(proc, T, record)

eq(self, other) ==
  CASE self.seg = "Code" -> Code_eq(self, other)
    [] self.seg = "Data" -> Data_eq(self, other)
    [] self.seg = "Vtable" -> Vtable_eq(self, other)

hash(self, st) ==
  CASE self.seg = "Code" -> Code_hash(self, st)
    [] self.seg = "Data" -> Data_hash(self, st)
    [] self.seg = "Vtable" -> Vtable_hash(self, st)

partial_cmp(self, other) ==
  CASE self.seg = "Code" -> Code_partial_cmp(self, other)
    [] self.seg = "Data" -> Data_partial_cmp(self, other)
    [] self.seg = "Vtable" -> Vtable_partial_cmp(self, other)

cmp(self, other) ==
  CASE self.seg = "Code" -> Code_cmp(self, other)
    [] self.seg = "Data" -> Data_cmp(self, other)
    [] self.seg = "Vtable" -> Vtable_cmp(self, other)

new(seg, T, p) ==
  CASE seg = "Code" -> Code_new(T, p)
    [] seg = "Data" -> Data_new(T, p)
    [] seg = "Vtable" -> Vtable_new(T, p)

\* The base a process uses for a segment kind
base(p, seg) ==
  CASE seg = "Code" -> relative_code_base(p)
    [] seg = "Data" -> RELATIVE_DATA_BASE(p)
    [] seg = "Vtable" -> RELATIVE_VTABLE_BASE(p)

----------------------------------------------------------------------------
\* The state machine

Init ==
  /\ build \in [Procs -> Builds]
  /\ load \in [Procs -> Addr]
  /\ val = <<>>
  /\ wire = <<>>
  /\ res = <<>>
  /\ ret = <<>>

\* Process p calls seg::<T>::from(x).
From(p, seg, T, x) ==
  /\ val = <<>>
  /\ val' = <<[p |-> p, x |-> x, v |-> from(p, seg, T, x)]>>
  /\ ret' = <<>>
  /\ UNCHANGED <<build, load, wire, res>>

\* Where the static item that process p has at address x lies in process q,
\* which runs the same image.
SameItem(p, x, q) == (x + load[q] + Modulus - load[p]) % Modulus

\* Process q, running the same image as the process that made val, calls
\* from() on the same static item, and the first value is dropped.
FromSameItem(q) ==
  /\ val # <<>>
  /\ q # val[1].p
  /\ build[q] = build[val[1].p]
  /\ LET x2 == SameItem(val[1].p, val[1].x, q)
     IN val' = <<[p |-> q, x |-> x2,
                  v |-> from(q, val[1].v.seg, val[1].v.ty, x2)]>>
  /\ ret' = <<>>
  /\ UNCHANGED <<build, load, wire, res>>

\* The process that made val calls val.to().
ToVal ==
  /\ val # <<>>
  /\ wire = <<>>
  /\ ret' = <<[op |-> "to", of |-> "val", p |-> val[1].p,
               addr |-> to(val[1].p, val[1].v)]>>
  /\ UNCHANGED <<build, load, val, wire, res>>

\* The process that deserialised a value calls to() on it.
ToRes ==
  /\ res # <<>>
  /\ res[1].r.ok
  /\ ret' = <<[op |-> "to", of |-> "res", p |-> res[1].p,
               addr |-> to(res[1].p, res[1].r.value)]>>
  /\ UNCHANGED <<build, load, val, wire, res>>

\* The process that made val compares it with, and hashes it beside, another
\* value of the same type, one of offset o.
Compare(o) ==
  /\ val # <<>>
  /\ wire = <<>>
  /\ LET a == val[1].v
         b == new(a.seg, a.ty, o)
     IN ret' = <<[op |-> "cmp", a |-> a, b |-> b,
                  eq |-> eq(a, b), eq_rev |-> eq(b, a),
                  cmp |-> cmp(a, b), cmp_rev |-> cmp(b, a),
                  partial_cmp |-> partial_cmp(a, b),
                  hash_a |-> [st \in {0, 1} |-> hash(a, st)],
                  hash_b |-> [st \in {0, 1} |-> hash(b, st)]]>>
  /\ UNCHANGED <<build, load, val, wire, res>>

\* The process that made val serialises it.
SerializeVal ==
  /\ val # <<>>
  /\ wire' = <<[rec |-> serialize(val[1].p, val[1].v), by |-> val[1].p]>>
  /\ ret' = <<>>
  /\ UNCHANGED <<build, load, val, res>>

\* The process that deserialised a value serialises it again.
SerializeRes ==
  /\ res # <<>>
  /\ res[1].r.ok
  /\ wire' = <<[rec |-> serialize(res[1].p, res[1].r.value), by |-> res[1].p]>>
  /\ ret' = <<>>
  /\ UNCHANGED <<build, load, val, res>>

\* deserialize dropping the process's own value when it fails
Deserialize_poisoning(q, seg, T) ==
  /\ wire # <<>>
  /\ LET r == deserialize(q, seg, T, wire[1].rec)
     IN /\ res' = <<[p |-> q, seg |-> seg, ty |-> T, rec |-> wire[1].rec,
                     by |-> wire[1].by, r |-> r]>>
        /\ val' = IF r.ok THEN val ELSE <<>>
  /\ ret' = <<>>
  /\ UNCHANGED <<build, load, wire>>

\* Process q deserialises the record in flight as seg<T>.
Deserialize(q, seg, T) ==
  /\ wire # <<>>
  /\ res' = <<[p |-> q, seg |-> seg, ty |-> T, rec |-> wire[1].rec,
               by |-> wire[1].by, r |-> deserialize(q, seg, T, wire[1].rec)]>>
  /\ ret' = <<>>
  /\ UNCHANGED <<build, load, val, wire>>

\* The values are dropped and the record consumed: the exchange is over.
Drop ==
  /\ val # <<>>
  /\ val' = <<>>
  /\ wire' = <<>>
  /\ res' = <<>>
  /\ ret' = <<>>
  /\ UNCHANGED <<build, load>>

Next ==
  \/ \E p \in Procs, seg \in Segs, T \in Types, x \in Addr : From(p, seg, T, x)
  \/ \E q \in Procs : FromSameItem(q)
  \/ ToVal
  \/ ToRes
  \/ \E o \in Addr : Compare(o)
  \/ SerializeVal
  \/ SerializeRes
  \/ \E q \in Procs, seg \in Segs, T \in Types : Deserialize(q, seg, T)
  \/ Drop

Spec == Init /\ [][Next]_vars

TypeOK ==
  /\ build \in [Procs -> Builds]
  /\ load \in [Procs -> Addr]
  /\ Len(val) <= 1
  /\ Len(wire) <= 1
  /\ Len(res) <= 1
  /\ Len(ret) <= 1

----------------------------------------------------------------------------
\* What the state holds, for the properties below

HasVal == val # <<>>

HasRes == res # <<>>

ResOk == HasRes /\ res[1].r.ok

RetToVal == ret # <<>> /\ ret[1].op = "to" /\ ret[1].of = "val"

RetToRes == ret # <<>> /\ ret[1].op = "to" /\ ret[1].of = "res"

RetCmp == ret # <<>> /\ ret[1].op = "cmp"

\* The last deserialize asked for the segment kind and type val has.
ResAsVal == HasVal /\ HasRes /\ res[1].seg = val[1].v.seg /\ res[1].ty = val[1].v.ty

CrossBinaryMismatch(r) ==
  ~r.ok /\ r.err.msg = "relative reference came from a different binary"

TypeMismatch(r) == ~r.ok /\ r.err.msg = "relative reference to wrong type"

----------------------------------------------------------------------------
\* C1: local round trip. In a process whose base for the segment is B,
\* from(X) stores the offset (X - B) mod 2^w, which is 2^w - (B - X) when
\* X < B, and to() of that value gives X back, for Code, Data and Vtable.
C1_LocalRoundTrip ==
  /\ HasVal =>
       LET B == base(val[1].p, val[1].v.seg)
           X == val[1].x
       IN val[1].v.off = (IF X >= B THEN X - B ELSE Modulus - (B - X))
  /\ RetToVal => ret[1].addr = val[1].x

C1_Witness ==
  /\ RetToVal
  /\ val[1].x < base(val[1].p, val[1].v.seg)
  /\ val[1].v.off = Modulus - (base(val[1].p, val[1].v.seg) - val[1].x)
  /\ ret[1].addr = val[1].x

\* C2: cross-process identity. A value made in P1 by from(B1 + d), serialised
\* by P1 and deserialised as the same segment kind and type by another
\* process P2 of the same build, is accepted, and to() in P2 gives B2 + d.
C2_CrossProcessIdentity ==
  (/\ ResAsVal
   /\ res[1].by = val[1].p
   /\ res[1].p # val[1].p
   /\ build[res[1].p] = build[val[1].p])
  => /\ res[1].r.ok
     /\ RetToRes =>
          \E d \in Addr :
            /\ (base(val[1].p, val[1].v.seg) + d) % Modulus = val[1].x
            /\ ret[1].addr = (base(res[1].p, res[1].seg) + d) % Modulus

C2_Witness ==
  /\ ResAsVal
  /\ res[1].by = val[1].p
  /\ res[1].p # val[1].p
  /\ build[res[1].p] = build[val[1].p]
  /\ base(res[1].p, res[1].seg) # base(val[1].p, val[1].v.seg)
  /\ RetToRes
  /\ ret[1].addr # val[1].x
  /\ val[1].x < base(val[1].p, val[1].v.seg)

\* C3: cross-binary rejection. Deserialising a record whose build id is not
\* the local one fails with the different-binary error, whatever the offset
\* and the type id, also when the type id mismatches too.
C3_CrossBinaryRejection ==
  (HasRes /\ res[1].rec[1] # build[res[1].p]) => CrossBinaryMismatch(res[1].r)

C3_Witness ==
  /\ HasRes
  /\ res[1].rec[1] # build[res[1].p]
  /\ res[1].rec[2] # TypeIds[build[res[1].p]][res[1].ty]
  /\ CrossBinaryMismatch(res[1].r)

\* C4: type-confusion rejection. Deserialising as T a record whose build id
\* is the local one and whose type id is not T's fails with the wrong-type
\* error, whatever the offset.
C4_TypeConfusionRejection ==
  (/\ HasRes
   /\ res[1].rec[1] = build[res[1].p]
   /\ res[1].rec[2] # TypeIds[build[res[1].p]][res[1].ty])
  => TypeMismatch(res[1].r)

C4_Witness ==
  /\ HasRes
  /\ res[1].rec[1] = build[res[1].p]
  /\ res[1].rec[2] # TypeIds[build[res[1].p]][res[1].ty]
  /\ TypeMismatch(res[1].r)
  /\ res[1].rec[3] > 0

\* C5: encode/decode stability. A record that a process serialised is
\* deserialised by that same process, as the segment kind and type of the
\* value, into a value equal to it, however often that is repeated.
C5_EncodeDecodeStable ==
  (ResAsVal /\ res[1].by = res[1].p /\ res[1].p = val[1].p)
  => /\ res[1].r.ok
     /\ res[1].r.value = val[1].v
     /\ eq(res[1].r.value, val[1].v)

C5_Witness ==
  /\ ResAsVal
  /\ res[1].by = res[1].p
  /\ res[1].p = val[1].p
  /\ res[1].r.ok
  /\ eq(res[1].r.value, val[1].v)
  /\ wire # <<>>
  /\ wire[1].by = res[1].p
  /\ wire[1].rec = res[1].rec

\* C6: equality does not depend on the absolute address. When a second
\* process makes a value by from() of the static item the first made one
\* from, at the same displacement from its own base, the two hold the same
\* offset and are equal; and a value a process deserialised from another
\* process's record equals the one it made itself from the same item.
C6_SameItemStep ==
  (/\ HasVal
   /\ val' # <<>>
   /\ val'[1].p # val[1].p
   /\ val'[1].v.seg = val[1].v.seg
   /\ \E d \in Addr :
        /\ (base(val[1].p, val[1].v.seg) + d) % Modulus = val[1].x
        /\ (base(val'[1].p, val[1].v.seg) + d) % Modulus = val'[1].x)
  => /\ val'[1].v.off = val[1].v.off
     /\ eq(val[1].v, val'[1].v)

C6_DecodedEqualsLocal ==
  (ResAsVal /\ res[1].r.ok /\ res[1].p = val[1].p /\ res[1].by # res[1].p)
  => /\ eq(res[1].r.value, val[1].v)
     /\ res[1].r.value.off = val[1].v.off

\* C6: both parts, the step of the second from() and every state after a
\* deserialize of the other process's record.
C6_EqualityAcrossProcesses == [][C6_SameItemStep]_vars /\ []C6_DecodedEqualsLocal

C6_Witness ==
  /\ ResAsVal
  /\ res[1].r.ok
  /\ res[1].p = val[1].p
  /\ res[1].by # res[1].p
  /\ base(res[1].by, res[1].seg) # base(res[1].p, res[1].seg)
  /\ eq(res[1].r.value, val[1].v)

\* C7 as the specification has it: a wrong-type error carries both type ids
\* and both type names, the name of the type the record was made from too.
C7_CarriesBothNames ==
  (HasVal /\ HasRes /\ TypeMismatch(res[1].r))
  => /\ res[1].r.err.got_id = res[1].rec[2]
     /\ res[1].r.err.expected_id = TypeIds[build[res[1].p]][res[1].ty]
     /\ res[1].r.err.expected_name = TypeNames[res[1].ty]
     /\ res[1].r.err.got_name = TypeNames[val[1].v.ty]

\* C7, amended: a wrong-type error carries both type ids and the name of the
\* requested type only; where the name of the record's type would be it
\* carries the placeholder ???.
C7_CarriesIdsAndExpectedName ==
  (HasRes /\ TypeMismatch(res[1].r))
  => /\ res[1].r.err.got_id = res[1].rec[2]
     /\ res[1].r.err.expected_id = TypeIds[build[res[1].p]][res[1].ty]
     /\ res[1].r.err.expected_name = TypeNames[res[1].ty]
     /\ res[1].r.err.got_name = "???"
     /\ res[1].r.err.got_id # res[1].r.err.expected_id

C7_Witness ==
  /\ HasVal
  /\ HasRes
  /\ TypeMismatch(res[1].r)
  /\ res[1].ty # val[1].v.ty
  /\ res[1].r.err.got_name = "???"

\* C8: failure isolation. A deserialize call changes nothing but its own
\* result: the value made before, the record, the build ids and the bases
\* stay as they were, so a later to() gives what it gave; and the result of
\* a call that follows a failed one is decided by its own record, the local
\* build id and the type id of T alone.
C8_DecodeStep ==
  (res' # res /\ res' # <<>>)
  => /\ val' = val
     /\ wire' = wire
     /\ build' = build
     /\ load' = load
     /\ HasVal => to(val[1].p, val[1].v)' = to(val[1].p, val[1].v)
     /\ (HasRes /\ ~res[1].r.ok) =>
          /\ res'[1].r.ok <=>
               /\ res'[1].rec[1] = build[res'[1].p]
               /\ res'[1].rec[2] = TypeIds[build[res'[1].p]][res'[1].ty]
          /\ res'[1].rec = wire[1].rec

\* C8: every step that sets a deserialize result is such a step.
C8_FailureIsolation == [][C8_DecodeStep]_vars

C8_Witness ==
  /\ HasVal
  /\ HasRes
  /\ ~res[1].r.ok
  /\ wire # <<>>
  /\ \E T \in Types :
       /\ wire[1].rec[1] = build[res[1].p]
       /\ wire[1].rec[2] = TypeIds[build[res[1].p]][T]

\* C9: comparison uses the offset alone. Two values of one segment kind and
\* type are equal iff their offsets are, cmp is the unsigned order of the
\* offsets, partial_cmp is Some of cmp, and equal values hash alike.
C9_CompareByOffset ==
  RetCmp =>
    LET a == ret[1].a
        b == ret[1].b
    IN /\ ret[1].eq <=> a.off = b.off
       /\ ret[1].eq_rev = ret[1].eq
       /\ ret[1].cmp = "Less" <=> a.off < b.off
       /\ ret[1].cmp = "Equal" <=> a.off = b.off
       /\ ret[1].cmp = "Greater" <=> a.off > b.off
       /\ ret[1].cmp_rev = "Less" <=> ret[1].cmp = "Greater"
       /\ ret[1].cmp_rev = "Greater" <=> ret[1].cmp = "Less"
       /\ ret[1].partial_cmp = <<ret[1].cmp>>
       /\ ret[1].eq => ret[1].hash_a = ret[1].hash_b

C9_Witness ==
  /\ RetCmp
  /\ ret[1].a.off = MaxAddr
  /\ ret[1].b.off = 1
  /\ ret[1].cmp = "Greater"
  /\ ~ret[1].eq
  /\ base(val[1].p, val[1].v.seg) > 1

\* C10: the codec, exactly. serialize in a process of build b writes
\* (b, type_id of T, offset); deserialize as T succeeds iff the record's
\* build id is the local one and its type id is T's, and the value then
\* holds the record's offset as it is, no base added or subtracted.
C10_ExactCodec ==
  /\ (HasVal /\ wire # <<>>) =>
       wire[1].rec = <<build[wire[1].by],
                       TypeIds[build[wire[1].by]][val[1].v.ty],
                       val[1].v.off>>
  /\ HasRes =>
       /\ res[1].r.ok <=>
            /\ res[1].rec[1] = build[res[1].p]
            /\ res[1].rec[2] = TypeIds[build[res[1].p]][res[1].ty]
       /\ res[1].r.ok =>
            res[1].r.value =
              [seg |-> res[1].seg, ty |-> res[1].ty, off |-> res[1].rec[3]]

C10_Witness ==
  /\ ResOk
  /\ res[1].by # res[1].p
  /\ res[1].rec[3] > 0
  /\ base(res[1].p, res[1].seg) > 0
  /\ res[1].r.value.off = res[1].rec[3]

\* C11: the segment kind is in neither the record nor the type id. A record
\* serialised from a value of one segment kind is three fields, its type id
\* that of T alone; deserialised under the same build as another segment kind
\* of the same T it is accepted with the same offset, and to() then resolves
\* it against the base of that other segment kind.
C11_SegmentKindNotChecked ==
  /\ (HasVal /\ wire # <<>>) =>
       /\ Len(wire[1].rec) = 3
       /\ wire[1].rec[2] = TypeIds[build[wire[1].by]][val[1].v.ty]
  /\ (/\ HasVal
      /\ HasRes
      /\ res[1].seg # val[1].v.seg
      /\ res[1].ty = val[1].v.ty
      /\ build[res[1].p] = build[res[1].by])
     => /\ res[1].r.ok
        /\ res[1].r.value.seg = res[1].seg
        /\ res[1].r.value.off = val[1].v.off
        /\ RetToRes =>
             ret[1].addr = (base(res[1].p, res[1].seg) + val[1].v.off) % Modulus

C11_Witness ==
  /\ HasVal
  /\ val[1].v.seg = "Code"
  /\ ResOk
  /\ res[1].seg = "Vtable"
  /\ res[1].by = val[1].p
  /\ RetToRes
  /\ ret[1].addr = (base(res[1].p, "Vtable") + val[1].v.off) % Modulus
  /\ ret[1].addr # (base(res[1].p, "Code") + val[1].v.off) % Modulus

====
